---- MODULE Spec2Model ----
(***************************************************************************)
(* Model of weatherbot9k.py: the CLI loop of main(), load_api_keys, the    *)
(* Conversation engine (get_next_completion, append, pprint), the retried  *)
(* completion client and the two retried weather lookups.                  *)
(*                                                                         *)
(* Python dicts are records; a key that a dict does not carry is a field   *)
(* the record does not have (dict.get is Get below).  The remote services  *)
(* and the user are the environment: every response they can give is drawn *)
(* with \E from the sets defined here.                                     *)
(***************************************************************************)
EXTENDS Integers, Sequences, FiniteSets, TLC

VARIABLES
    env,                  \* names set in the process environment (os.getenv)
    user_input,           \* main()'s local user_input: the line read last
    api_keys,             \* the global api_keys: a mapping name -> secret
    conversation_history, \* Conversation.conversation_history
    pc,                   \* main() is at start, input, request, dispatch, exited
    exit_status,          \* exit status once pc = "exited", else Running
    exit_cause,           \* what ended the process ("none" while it runs)
    attempt,              \* tenacity's attempt number of the call being retried
    assistant_message,    \* get_next_completion's local assistant_message
    tool_idx,             \* position of the for loop over tool_calls (1-based)
    depth,                \* nesting of get_next_completion in the current turn
    completions,          \* get_next_completion calls made so far
    gets,                 \* weather GETs made for the current assistant message
    get_outcome,          \* what the latest weather GET met
    func_response,        \* get_next_completion's local func_response
    request_response,     \* what the latest POST attempt met (request_response)
    network_used          \* TRUE once any POST or GET was issued

vars == <<env, user_input, api_keys, conversation_history, pc, exit_status,
          exit_cause,
          attempt, assistant_message, tool_idx, depth, completions, gets,
          get_outcome, func_response, request_response, network_used>>

---------------------------------------------------------------------------
(* Bounds of the exploration.                                              *)

\* get_next_completion calls explored in one run (over all user turns)
MaxCompletions == 2
\* tool calls the remote model puts in one assistant message
MaxCalls == 2

(* Program constants.                                                      *)

\* stop=stop_after_attempt(3) on openai_chat_completion_request
stop_after_attempt == 3
\* stop=stop_after_attempt(3) on get_current_weather / get_weather_forecast
weather_stop_after_attempt == 3
\* sys.exit(78) # configuration error
EX_CONFIG == 78
\* status of a process ended by an uncaught exception or SystemExit(object)
EX_FAILURE == 1
\* status after main() returns
EX_OK == 0
\* exit_status of a process that has not exited
Running == -1

None == "<None>"
NoMessage == [role |-> None]

\* main(): load_api_keys('OPENAI_API_KEY', 'WEATHERAPI_KEY')
keys_to_load == <<"OPENAI_API_KEY", "WEATHERAPI_KEY">>

system_prompt == "You are Weatherbot-9000"

\* dict.get(key): None for a key the dict does not carry
Get(d, key) == IF key \in DOMAIN d THEN d[key] ELSE None

\* the line taken as it is, without str.strip()
StripNothing(s) == s

\* str.strip() on the input lines the model reads
Strip(s) == IF s \in {"", "   "} THEN "" ELSE s

---------------------------------------------------------------------------
(* load_api_keys                                                           *)

NoKeys == [k \in {} |-> ""]

\* os.getenv(k): the value of a name the environment sets, else None
Getenv(e, k) == IF k \in e THEN "secret-of-" \o k ELSE None

\* the for loop: key_buffer keeps exactly the names whose value is not None
KeyBuffer(e, keys) ==
    [k \in {keys[i] : i \in {j \in DOMAIN keys : Getenv(e, keys[j]) # None}}
        |-> Getenv(e, k)]

\* load_api_keys exiting only when no key at all was loaded
load_api_keysAnyKey(e, keys) ==
    LET key_buffer == KeyBuffer(e, keys)
    IN  IF Cardinality(DOMAIN key_buffer) < 1
        THEN [exits |-> TRUE, value |-> NoKeys]
        ELSE [exits |-> FALSE, value |-> key_buffer]

\* [exits |-> TRUE] is sys.exit(78); otherwise the returned key_buffer
load_api_keys(e, keys) ==
    LET key_buffer == KeyBuffer(e, keys)
    IN  IF Cardinality(DOMAIN key_buffer) < Len(keys)
        THEN [exits |-> TRUE, value |-> NoKeys]
        ELSE [exits |-> FALSE, value |-> key_buffer]

---------------------------------------------------------------------------
(* Conversation.append, Conversation.pprint                                *)

\* the message dict append() builds: tool_call_id only when it is truthy
NewMessage(role, content, tool_call_id) ==
    IF tool_call_id # None /\ tool_call_id # ""
    THEN [role |-> role, content |-> content, tool_call_id |-> tool_call_id]
    ELSE [role |-> role, content |-> content]

\* append with the message inserted at the front instead of the end
appendAtFront(history, role, content, tool_call_id) ==
    <<NewMessage(role, content, tool_call_id)>> \o history

\* append with the message written over the last one
appendOverLast(history, role, content, tool_call_id) ==
    IF history = << >>
    THEN <<NewMessage(role, content, tool_call_id)>>
    ELSE [history EXCEPT ![Len(history)] =
                             NewMessage(role, content, tool_call_id)]

\* Conversation.append
append(history, role, content, tool_call_id) ==
    Append(history, NewMessage(role, content, tool_call_id))

\* the test of line 121 as `is not None`: an empty tool_calls list passes
HasToolCallsKeyPresent(message) == "tool_calls" \in DOMAIN message

\* message.get('tool_calls') is truthy: the key is there and the list non-empty
HasToolCalls(message) ==
    "tool_calls" \in DOMAIN message /\ Len(message.tool_calls) > 0

\* json.loads of the argument strings the model's remote sends: the parsed
\* object as the set of its keys, or a decoding failure
JsonLoads(s) ==
    CASE s = "{\"location\": \"10001\"}" -> [ok |-> TRUE, keys |-> {"location"}]
      [] s = "{\"location\": \"Paris\", \"days\": 3}"
                                -> [ok |-> TRUE, keys |-> {"location", "days"}]
      [] s = "{\"days\": 3}"    -> [ok |-> TRUE, keys |-> {"days"}]
      [] OTHER                  -> [ok |-> FALSE, keys |-> {}]

\* the exception _pprint_message raises on one tool call of an assistant
\* message, None when it prints
PprintToolCallRaises(tool_call) ==
    IF Get(tool_call, "type") # "function" THEN "AssertionError"
    ELSE IF "id" \notin DOMAIN tool_call THEN "KeyError"
    ELSE IF ~JsonLoads(tool_call.function.arguments).ok THEN "JSONDecodeError"
    ELSE None

\* the exception pprint(-1) raises on the message just appended, None when
\* it prints
PprintRaises(message) ==
    IF message.role = "assistant" /\ HasToolCalls(message)
    THEN LET bad == {i \in DOMAIN message.tool_calls :
                        PprintToolCallRaises(message.tool_calls[i]) # None}
         IN  IF bad = {} THEN None
             ELSE PprintToolCallRaises(
                      message.tool_calls[
                          CHOOSE i \in bad : \A j \in bad : i <= j])
    ELSE IF message.role = "tool" /\ "tool_call_id" \notin DOMAIN message
    THEN "KeyError"
    ELSE None

---------------------------------------------------------------------------
(* What the remote model can send.                                         *)

ToolCall(id, type, name, arguments) ==
    [id |-> id, type |-> type,
     function |-> [name |-> name, arguments |-> arguments]]

\* Two well-formed calls, one per tool, and four that break the protocol: a
\* type that is not "function", a name outside the dispatch table, argument
\* text that is not JSON, and arguments that lack a required field.  Ids are
\* unique, as the completion API issues them.
ToolCallShapes ==
    { ToolCall("call_1", "function", "get_current_weather",
               "{\"location\": \"10001\"}"),
      ToolCall("call_2", "function", "get_weather_forecast",
               "{\"location\": \"Paris\", \"days\": 3}"),
      ToolCall("call_3", "code_interpreter", "get_current_weather",
               "{\"location\": \"10001\"}"),
      ToolCall("call_4", "function", "get_astronomy",
               "{\"location\": \"10001\"}"),
      ToolCall("call_5", "function", "get_current_weather",
               "{\"location\": "),
      ToolCall("call_6", "function", "get_weather_forecast",
               "{\"location\": \"10001\"}") }

\* the tool_calls lists of one assistant message: 1..MaxCalls distinct calls
ToolCallLists ==
    UNION { { s \in [1..n -> ToolCallShapes] :
                \A i, j \in 1..n : i # j => s[i] # s[j] } : n \in 1..MaxCalls }

\* choices[0].message of a completion
AssistantMessages ==
    { [role |-> "assistant", content |-> "Sunny, with a chance of puns"],
      [role |-> "assistant", content |-> "Sunny, with a chance of puns",
       tool_calls |-> << >>] }
    \cup { [role |-> "assistant", content |-> None, tool_calls |-> s] :
             s \in ToolCallLists }

\* What one POST attempt can meet: requests.post raising (transport), a
\* response whose status raise_for_status rejects (its body JSON with an
\* error field, or not JSON), or
\* a 2xx response whose body is not JSON, carries an error field, carries no
\* choices, or carries a message.
Responses ==
    { [kind |-> "transport", body |-> None, message |-> NoMessage] }
    \cup { [kind |-> "http_error", body |-> b, message |-> NoMessage] :
             b \in {"error", "not_json"} }
    \cup { [kind |-> "ok", body |-> b, message |-> NoMessage] :
             b \in {"error", "not_json", "no_choices"} }
    \cup { [kind |-> "ok", body |-> "message", message |-> m] :
             m \in AssistantMessages }

\* What one weather GET can meet: a JSON body, requests.get raising, or a
\* body response.json() cannot decode
GetOutcomes ==
    { [kind |-> "json", type |-> "dict"],
      [kind |-> "exception", type |-> "ConnectionError"],
      [kind |-> "exception", type |-> "JSONDecodeError"] }

NoResponse == [kind |-> None, type |-> None]

\* request_response before any attempt of the call
NoRequestResponse == [kind |-> None, body |-> None, message |-> NoMessage]

\* str(func_response)
Str(response) ==
    IF response.kind = "json" THEN "{'location': {}, 'current': {}}"
    ELSE response.type \o "('weather GET failed')"

\* the lines the user can type
InputLines == {"", "   ", "!debug", "weather in 10001?"}

---------------------------------------------------------------------------
(* The dispatch table and the two weather lookups.                         *)

\* name_to_func with a third tool behind the table
name_to_funcThreeTools ==
    [get_current_weather |-> {"location"},
     get_weather_forecast |-> {"location", "days"},
     get_astronomy |-> {"location"}]

\* name_to_func, each function as the set of args keys it subscripts
name_to_func ==
    [get_current_weather |-> {"location"},
     get_weather_forecast |-> {"location", "days"}]

\* name_to_func.get(func_name): the function (by its name) or None
FuncToRun(func_name) ==
    IF func_name \in DOMAIN name_to_func THEN func_name ELSE None

\* the exception lines 125-136 raise on a tool call, None when they pass
DispatchRaises(tool_call) ==
    IF Get(tool_call, "type") # "function" THEN "AssertionError"
    ELSE IF "id" \notin DOMAIN tool_call THEN "KeyError"
    ELSE IF ~JsonLoads(tool_call.function.arguments).ok THEN "JSONDecodeError"
    ELSE IF FuncToRun(tool_call.function.name) = None THEN "AssertionError"
    ELSE None

\* args['location'] / args['days'] raise KeyError before the try block
LookupRaisesKeyError(tool_call) ==
    ~(name_to_func[FuncToRun(tool_call.function.name)]
        \subseteq JsonLoads(tool_call.function.arguments).keys)

---------------------------------------------------------------------------
(* The process.                                                            *)

Init ==
    /\ env \in SUBSET {keys_to_load[i] : i \in DOMAIN keys_to_load}
    /\ user_input = None
    /\ api_keys = NoKeys
    /\ conversation_history = << >>
    /\ pc = "start"
    /\ exit_status = Running
    /\ exit_cause = "none"
    /\ attempt = 0
    /\ assistant_message = NoMessage
    /\ tool_idx = 0
    /\ depth = 0
    /\ completions = 0
    /\ gets = 0
    /\ get_outcome = NoResponse
    /\ func_response = NoResponse
    /\ request_response = NoRequestResponse
    /\ network_used = FALSE

\* the process ends with this status for this reason
Exit(status, cause) ==
    /\ pc' = "exited"
    /\ exit_status' = status
    /\ exit_cause' = cause

\* main() up to the loop: load_api_keys, Conversation(), the system message
Startup ==
    /\ pc = "start"
    /\ LET loaded == load_api_keys(env, keys_to_load)
       IN  IF loaded.exits
           THEN /\ Exit(EX_CONFIG, "missing_api_key")
                /\ UNCHANGED <<api_keys, conversation_history>>
           ELSE /\ api_keys' = loaded.value
                /\ conversation_history' =
                       append(<< >>, "system", system_prompt, None)
                /\ pc' = "input"
                /\ UNCHANGED <<exit_status, exit_cause>>
    /\ UNCHANGED <<env, user_input, attempt, assistant_message, tool_idx,
                   depth, completions, gets, get_outcome, func_response,
                   request_response, network_used>>

\* one iteration of the while loop on a line that is blank or the sentinel
ReadIgnoredInput ==
    /\ pc = "input"
    /\ \E line \in InputLines :
          /\ Strip(line) = "" \/ line = "!debug"
          /\ user_input' = line
    /\ UNCHANGED <<env, api_keys, conversation_history, pc, exit_status,
                   exit_cause, attempt, assistant_message, tool_idx, depth,
                   completions, gets, get_outcome, func_response,
                   request_response, network_used>>

\* ReadUserInput without line 82: the completion is requested for a line
\* that was never appended
ReadUserInputNotAppended ==
    /\ pc = "input"
    /\ completions < MaxCompletions
    /\ \E line \in InputLines :
          /\ Strip(line) # ""
          /\ line # "!debug"
          /\ user_input' = line
    /\ pc' = "request"
    /\ attempt' = 1
    /\ depth' = 1
    /\ completions' = completions + 1
    /\ assistant_message' = NoMessage
    /\ tool_idx' = 0
    /\ request_response' = NoRequestResponse
    /\ UNCHANGED <<env, api_keys, conversation_history, exit_status,
                   exit_cause, gets, get_outcome, func_response, network_used>>

\* one iteration on any other line: conv.append(role='user') and the call
\* of get_next_completion
ReadUserInput ==
    /\ pc = "input"
    /\ completions < MaxCompletions
    /\ \E line \in InputLines :
          /\ Strip(line) # ""
          /\ line # "!debug"
          /\ user_input' = line
          /\ conversation_history' =
                 append(conversation_history, "user", line, None)
    /\ pc' = "request"
    /\ attempt' = 1
    /\ depth' = 1
    /\ completions' = completions + 1
    /\ assistant_message' = NoMessage
    /\ tool_idx' = 0
    /\ request_response' = NoRequestResponse
    /\ UNCHANGED <<env, api_keys, exit_status, exit_cause, gets, get_outcome,
                   func_response, network_used>>

\* Interrupt with the try block around input() alone: a signal during a
\* request is not turned into the farewell
InterruptAtPromptOnly ==
    /\ pc = "input"
    /\ Exit(EX_OK, "farewell")
    /\ UNCHANGED <<env, user_input, api_keys, conversation_history, attempt,
                   assistant_message, tool_idx, depth, completions, gets,
                   get_outcome, func_response, request_response,
                   network_used>>

\* KeyboardInterrupt or EOFError reaches main()'s except clause from input()
\* or from a blocking request: print(), ui_say_goodbye(), main() returns
Interrupt ==
    /\ pc \in {"input", "request", "dispatch"}
    /\ Exit(EX_OK, "farewell")
    /\ UNCHANGED <<env, user_input, api_keys, conversation_history, attempt,
                   assistant_message, tool_idx, depth, completions, gets,
                   get_outcome, func_response, request_response, network_used>>

---------------------------------------------------------------------------
(* openai_chat_completion_request under @retry, and get_next_completion    *)

\* One attempt of openai_chat_completion_request: "return" of the response,
\* or the exception it ends with.  requests.post raising leaves `response`
\* unbound, so the except block's print raises UnboundLocalError; a rejected
\* status whose body is not JSON makes response.json() raise there; any other
\* rejected status reaches raise SystemExit(e).
OpenaiAttempt(resp) ==
    IF resp.kind = "transport" THEN "UnboundLocalError"
    ELSE IF resp.kind = "http_error"
         THEN IF resp.body = "not_json" THEN "JSONDecodeError" ELSE "SystemExit"
    ELSE "return"

\* tenacity retries what is an Exception; SystemExit is not one
IsException(raised) == raised \notin {"return", "SystemExit"}

\* request_response.json().get('error') is truthy
ResponseHasError(resp) == resp.body = "error"

\* PostRaises with the failure swallowed once the attempts are used up: the
\* call returns and the while loop reads on
PostRaisesSwallowed ==
    /\ pc = "request"
    /\ \E resp \in Responses :
          /\ IsException(OpenaiAttempt(resp))
          /\ request_response' = resp
          /\ IF attempt < stop_after_attempt
             THEN /\ attempt' = attempt + 1
                  /\ UNCHANGED <<pc, depth>>
             ELSE /\ pc' = "input"
                  /\ depth' = 0
                  /\ UNCHANGED attempt
    /\ network_used' = TRUE
    /\ UNCHANGED <<env, user_input, api_keys, conversation_history,
                   exit_status, exit_cause, assistant_message, tool_idx,
                   completions, gets, get_outcome, func_response>>

\* an attempt raised an Exception: tenacity runs it again, or gives up with
\* RetryError after stop_after_attempt attempts
PostRaises ==
    /\ pc = "request"
    /\ \E resp \in Responses :
          /\ IsException(OpenaiAttempt(resp))
          /\ request_response' = resp
          /\ IF attempt < stop_after_attempt
             THEN /\ attempt' = attempt + 1
                  /\ UNCHANGED <<pc, exit_status, exit_cause>>
             ELSE /\ Exit(EX_FAILURE, "completion_retries_exhausted")
                  /\ UNCHANGED attempt
    /\ network_used' = TRUE
    /\ UNCHANGED <<env, user_input, api_keys, conversation_history,
                   assistant_message, tool_idx, depth, completions, gets,
                   get_outcome, func_response>>

\* an attempt ended in raise SystemExit(e): the process exits
PostSystemExit ==
    /\ pc = "request"
    /\ \E resp \in Responses :
          /\ OpenaiAttempt(resp) = "SystemExit"
          /\ request_response' = resp
    /\ Exit(EX_FAILURE, "completion_http_error")
    /\ network_used' = TRUE
    /\ UNCHANGED <<env, user_input, api_keys, conversation_history, attempt,
                   assistant_message, tool_idx, depth, completions, gets,
                   get_outcome, func_response>>

\* CompletionWithoutMessage with the error check after the append: the body
\* is appended as an assistant message before the process exits
CompletionWithoutMessageAppended ==
    /\ pc = "request"
    /\ \E resp \in Responses :
          /\ OpenaiAttempt(resp) = "return"
          /\ resp.body # "message"
          /\ request_response' = resp
          /\ IF resp.body # "not_json" /\ ResponseHasError(resp)
             THEN /\ Exit(EX_FAILURE, "completion_error_payload")
                  /\ conversation_history' =
                         Append(conversation_history, [role |-> "assistant"])
             ELSE /\ Exit(EX_FAILURE, "completion_bad_body")
                  /\ UNCHANGED conversation_history
    /\ network_used' = TRUE
    /\ UNCHANGED <<env, user_input, api_keys, attempt, assistant_message,
                   tool_idx, depth, completions, gets, get_outcome,
                   func_response>>

\* the response came back and carries no message: an error field (lines
\* 112-114), a body that is not JSON, or a body without choices
CompletionWithoutMessage ==
    /\ pc = "request"
    /\ \E resp \in Responses :
          /\ OpenaiAttempt(resp) = "return"
          /\ resp.body # "message"
          /\ request_response' = resp
          /\ IF resp.body # "not_json" /\ ResponseHasError(resp)
             THEN Exit(EX_FAILURE, "completion_error_payload")
             ELSE Exit(EX_FAILURE, "completion_bad_body")
    /\ network_used' = TRUE
    /\ UNCHANGED <<env, user_input, api_keys, conversation_history, attempt,
                   assistant_message, tool_idx, depth, completions, gets,
                   get_outcome, func_response>>

\* the response carries a message: lines 116-121.  The message is appended
\* and printed; with tool calls the for loop starts, without the call (and
\* every enclosing call) returns to the while loop.
CompletionMessage ==
    /\ pc = "request"
    /\ \E resp \in Responses :
          /\ OpenaiAttempt(resp) = "return"
          /\ resp.body = "message"
          /\ ~ResponseHasError(resp)
          /\ request_response' = resp
          /\ assistant_message' = resp.message
          /\ conversation_history' = Append(conversation_history, resp.message)
          /\ IF PprintRaises(resp.message) # None
             THEN /\ Exit(EX_FAILURE, "tool_call_malformed")
                  /\ UNCHANGED <<tool_idx, attempt, depth, gets>>
             ELSE IF HasToolCalls(resp.message)
             THEN /\ pc' = "dispatch"
                  /\ tool_idx' = 1
                  /\ attempt' = 1
                  /\ gets' = 0
                  /\ UNCHANGED <<exit_status, exit_cause, depth>>
             ELSE /\ pc' = "input"
                  /\ depth' = 0
                  /\ UNCHANGED <<exit_status, exit_cause, tool_idx, attempt,
                                 gets>>
    /\ network_used' = TRUE
    /\ UNCHANGED <<env, user_input, api_keys, completions, get_outcome,
                   func_response>>

\* the tool call the for loop is at
CurrentToolCall == assistant_message.tool_calls[tool_idx]

InLoop ==
    /\ pc = "dispatch"
    /\ tool_idx <= Len(assistant_message.tool_calls)

\* lines 125-136 raise on the tool call: the type assertion, json.loads or
\* the assertion on the looked-up function
DispatchFails ==
    /\ InLoop
    /\ DispatchRaises(CurrentToolCall) # None
    /\ Exit(EX_FAILURE,
            IF DispatchRaises(CurrentToolCall) = "AssertionError"
               /\ Get(CurrentToolCall, "type") = "function"
            THEN "tool_name_unknown" ELSE "tool_call_malformed")
    /\ UNCHANGED <<env, user_input, api_keys, conversation_history, attempt,
                   assistant_message, tool_idx, depth, completions, gets,
                   get_outcome, func_response, request_response, network_used>>

\* func_to_run(func_args) raises KeyError on a missing argument before it
\* requests anything: tenacity runs it again, or gives up with RetryError
LookupRaises ==
    /\ InLoop
    /\ DispatchRaises(CurrentToolCall) = None
    /\ LookupRaisesKeyError(CurrentToolCall)
    /\ IF attempt < weather_stop_after_attempt
       THEN /\ attempt' = attempt + 1
            /\ UNCHANGED <<pc, exit_status, exit_cause>>
       ELSE /\ Exit(EX_FAILURE, "tool_args_incomplete")
            /\ UNCHANGED attempt
    /\ UNCHANGED <<env, user_input, api_keys, conversation_history,
                   assistant_message, tool_idx, depth, completions, gets,
                   get_outcome, func_response, request_response, network_used>>

\* line 140 with the bug of answering every call under the first call's id
ToolMessageFirstId(tool_call, response) ==
    NewMessage("tool", Str(response), assistant_message.tool_calls[1].id)

\* the tool message of line 140
ToolMessage(tool_call, response) ==
    NewMessage("tool", Str(response), tool_call.id)

\* Lookup with the except block re-raising: a failed GET leaves the function
\* as an exception, which tenacity retries and then gives up on
LookupReraises ==
    /\ InLoop
    /\ DispatchRaises(CurrentToolCall) = None
    /\ ~LookupRaisesKeyError(CurrentToolCall)
    /\ \E outcome \in GetOutcomes :
          /\ get_outcome' = outcome
          /\ IF outcome.kind = "exception"
             THEN /\ UNCHANGED <<func_response, conversation_history, tool_idx>>
                  /\ IF attempt < weather_stop_after_attempt
                     THEN /\ attempt' = attempt + 1
                          /\ UNCHANGED <<pc, exit_status, exit_cause>>
                     ELSE /\ Exit(EX_FAILURE, "lookup_retries_exhausted")
                          /\ UNCHANGED attempt
             ELSE /\ func_response' = outcome
                  /\ conversation_history' =
                         Append(conversation_history,
                                ToolMessage(CurrentToolCall, outcome))
                  /\ tool_idx' = tool_idx + 1
                  /\ attempt' = 1
                  /\ UNCHANGED <<pc, exit_status, exit_cause>>
    /\ gets' = gets + 1
    /\ network_used' = TRUE
    /\ UNCHANGED <<env, user_input, api_keys, assistant_message, depth,
                   completions, request_response>>

\* func_to_run(func_args) makes its GET and returns the JSON or the
\* exception; lines 140-141 append and print the tool message
Lookup ==
    /\ InLoop
    /\ DispatchRaises(CurrentToolCall) = None
    /\ ~LookupRaisesKeyError(CurrentToolCall)
    /\ \E outcome \in GetOutcomes :
          /\ get_outcome' = outcome
          /\ func_response' = outcome
          /\ conversation_history' =
                 Append(conversation_history,
                        ToolMessage(CurrentToolCall, outcome))
          /\ IF PprintRaises(ToolMessage(CurrentToolCall, outcome)) # None
             THEN /\ Exit(EX_FAILURE, "tool_call_malformed")
                  /\ UNCHANGED tool_idx
             ELSE /\ tool_idx' = tool_idx + 1
                  /\ UNCHANGED <<pc, exit_status, exit_cause>>
    /\ gets' = gets + 1
    /\ attempt' = 1
    /\ network_used' = TRUE
    /\ UNCHANGED <<env, user_input, api_keys, assistant_message, depth,
                   completions, request_response>>

\* Recurse with line 144 inside the for loop: the next request is made as
\* soon as one tool call is answered
RecurseInsideLoop ==
    /\ pc = "dispatch"
    /\ tool_idx > 1
    /\ completions < MaxCompletions
    /\ pc' = "request"
    /\ attempt' = 1
    /\ depth' = depth + 1
    /\ completions' = completions + 1
    /\ request_response' = NoRequestResponse
    /\ assistant_message' = NoMessage
    /\ tool_idx' = 0
    /\ UNCHANGED <<env, user_input, api_keys, conversation_history,
                   exit_status, exit_cause, gets, get_outcome, func_response,
                   network_used>>

\* line 144: the loop is over, get_next_completion calls itself (the new
\* call has its own, still unset, locals)
Recurse ==
    /\ pc = "dispatch"
    /\ tool_idx > Len(assistant_message.tool_calls)
    /\ completions < MaxCompletions
    /\ pc' = "request"
    /\ attempt' = 1
    /\ depth' = depth + 1
    /\ completions' = completions + 1
    /\ request_response' = NoRequestResponse
    /\ assistant_message' = NoMessage
    /\ tool_idx' = 0
    /\ UNCHANGED <<env, user_input, api_keys, conversation_history,
                   exit_status, exit_cause, gets, get_outcome, func_response,
                   network_used>>

Next ==
    \/ Startup
    \/ ReadIgnoredInput
    \/ ReadUserInput
    \/ Interrupt
    \/ PostRaises
    \/ PostSystemExit
    \/ CompletionWithoutMessage
    \/ CompletionMessage
    \/ DispatchFails
    \/ LookupRaises
    \/ Lookup
    \/ Recurse

Spec == Init /\ [][Next]_vars

---------------------------------------------------------------------------
(* Properties.                                                             *)

IsPrefix(s, t) == Len(s) <= Len(t) /\ SubSeq(t, 1, Len(s)) = s

\* positions of the assistant messages that carry tool calls
ToolCallRounds ==
    {k \in DOMAIN conversation_history :
        /\ conversation_history[k].role = "assistant"
        /\ HasToolCalls(conversation_history[k])}

\* C1: whenever a completion request is being issued, every assistant
\* message of the history that carries N >= 1 tool calls is followed at once
\* by exactly N tool messages, the i-th carrying the id of the i-th call.
C1_ToolRepliesBeforeNextRequest ==
    pc = "request" =>
        \A k \in ToolCallRounds :
            LET calls == conversation_history[k].tool_calls
                N == Len(calls)
            IN  /\ k + N <= Len(conversation_history)
                /\ \A i \in 1..N :
                      /\ conversation_history[k + i].role = "tool"
                      /\ Get(conversation_history[k + i], "tool_call_id")
                            = calls[i].id
                /\ k + N + 1 <= Len(conversation_history)
                      => conversation_history[k + N + 1].role # "tool"

\* a follow-up request is being issued after a round of two tool calls
C1_Witness ==
    /\ pc = "request"
    /\ \E k \in ToolCallRounds : Len(conversation_history[k].tool_calls) = 2

\* C2 (as claimed): the rounds of one user turn stay below a bound of their
\* own, so a turn never uses up every completion the exploration allows.
C2_RoundsBounded == depth < MaxCompletions

\* the step is an attempt of the completion request (not an interrupt)
PostStep == pc = "request" /\ exit_cause' # "farewell"

FatalCauses ==
    {"missing_api_key", "tool_call_malformed", "tool_name_unknown",
     "tool_args_incomplete", "completion_bad_body"}

\* C3 (as claimed): the process ends abnormally only for a missing
\* credential or a protocol violation.
C3_OnlyConfigOrProtocolFatal ==
    (pc = "exited" /\ exit_status # EX_OK) => exit_cause \in FatalCauses

\* C3 (amended): the process ends abnormally for a missing credential
\* (status 78), a protocol violation, a remote-API error payload or a
\* completion request that failed on every attempt (status 1); after an
\* error payload or a used-up completion request the process has exited and
\* takes no further step, so no further input is read.
C3_CompletionFailuresAreFatal ==
    /\ [](  (pc = "exited" /\ exit_status # EX_OK) =>
              /\ exit_cause \in FatalCauses \cup
                    {"completion_error_payload", "completion_http_error",
                     "completion_retries_exhausted"}
              /\ exit_status = IF exit_cause = "missing_api_key"
                               THEN EX_CONFIG ELSE EX_FAILURE)
    /\ [][ /\ ( /\ PostStep
                /\ \/ request_response'.body = "error"
                   \/ /\ attempt = stop_after_attempt
                      /\ request_response'.kind = "transport" )
              => (pc' = "exited" /\ exit_status' = EX_FAILURE)
           /\ pc = "exited" => pc' = "exited" ]_vars

\* the third attempt of a completion request failed in transport too
C3_Witness ==
    /\ exit_cause = "completion_retries_exhausted"
    /\ attempt = stop_after_attempt
    /\ request_response.kind = "transport"

\* C4: a completion response whose body carries an error field appends
\* nothing (the history is the history before the request) and ends the
\* process there: no later step dispatches a tool or requests a completion.
C4_ErrorPayloadAppendsNothing ==
    /\ [](request_response.body = "error" => pc = "exited")
    /\ [][ /\ (PostStep /\ request_response'.body = "error")
              => /\ conversation_history' = conversation_history
                 /\ pc' = "exited"
           /\ request_response.body = "error" => UNCHANGED vars ]_vars

\* the follow-up request after a tool round met an error payload in a 2xx body
C4_Witness ==
    /\ exit_cause = "completion_error_payload"
    /\ request_response.kind = "ok"
    /\ conversation_history[Len(conversation_history)].role = "tool"

\* C5: back at the prompt with no tool call in the history, the history is
\* the system message followed by (user, assistant) pairs: each turn added
\* one user message and then one assistant message.
C5_TwoMessagesPerTurn ==
    (pc = "input" /\ ToolCallRounds = {}) =>
        LET n == Len(conversation_history)
            turns == Cardinality({k \in 1..n :
                                    conversation_history[k].role = "user"})
        IN  /\ n = 1 + 2 * turns
            /\ \A t \in 1..turns :
                  /\ conversation_history[2 * t].role = "user"
                  /\ conversation_history[2 * t + 1].role = "assistant"

\* two turns without tool calls are over
C5_Witness ==
    /\ pc = "input"
    /\ ToolCallRounds = {}
    /\ Len(conversation_history) = 5

\* the process got past load_api_keys into the CLI loop
LoopStarted == pc # "start" /\ exit_cause # "missing_api_key"

\* C6: once the CLI loop has started the history is non-empty, its first
\* element is the system message and no other message has the system role;
\* no step replaces or removes the first element.
C6_SystemMessageFirst ==
    /\ [](LoopStarted =>
            /\ Len(conversation_history) >= 1
            /\ conversation_history[1] =
                   [role |-> "system", content |-> system_prompt]
            /\ {k \in DOMAIN conversation_history :
                   conversation_history[k].role = "system"} = {1})
    /\ [][conversation_history # << >> =>
            /\ conversation_history' # << >>
            /\ conversation_history'[1] = conversation_history[1]]_vars

\* a tool round and its follow-up answer are in the history
C6_Witness ==
    /\ pc = "input"
    /\ Len(conversation_history) >= 5
    /\ ToolCallRounds # {}

\* C7: every step leaves the history as it was or extends it at the end: the
\* history before the step is a prefix of the history after it.
C7_HistoryAppendOnly ==
    [][IsPrefix(conversation_history, conversation_history')]_vars

\* user, assistant and tool messages were all appended
C7_Witness ==
    /\ \E k \in DOMAIN conversation_history :
          conversation_history[k].role = "user"
    /\ \E k \in DOMAIN conversation_history :
          conversation_history[k].role = "tool"
    /\ conversation_history[Len(conversation_history)].role = "assistant"
    /\ ToolCallRounds # {Len(conversation_history)}
    /\ ~HasToolCalls(conversation_history[Len(conversation_history)])

\* the step is a weather GET of the for loop
GetStep == pc = "dispatch" /\ gets' = gets + 1

\* C8: a weather GET that fails (transport or decoding) does not end the
\* process and does not leave the lookup as an exception: the error object
\* is the lookup's result, its string form is the content of the one tool
\* message the step appends under the tool call's id, and the loop goes on
\* to the next call or to the follow-up completion request.
C8_FailedGetBecomesToolMessage ==
    [][ (GetStep /\ get_outcome'.kind = "exception") =>
          /\ func_response' = get_outcome'
          /\ conversation_history' =
                 Append(conversation_history,
                        [role |-> "tool",
                         content |-> Str(get_outcome'),
                         tool_call_id |-> CurrentToolCall.id])
          /\ pc' = "dispatch"
          /\ exit_status' = Running
          /\ tool_idx' = tool_idx + 1 ]_vars

\* the follow-up completion request is being issued after a failed GET
C8_Witness ==
    /\ pc = "request"
    /\ depth = 2
    /\ get_outcome.kind = "exception"
    /\ conversation_history[Len(conversation_history)] =
           [role |-> "tool", content |-> Str(get_outcome),
            tool_call_id |-> "call_2"]

RequestedNames == {keys_to_load[i] : i \in DOMAIN keys_to_load}

\* C9: past load_api_keys, either every requested name was in the
\* environment and api_keys maps every requested name, or the process has
\* exited with status 78 having returned no mapping, built no conversation
\* and issued no request; a partial mapping never exists.
C9_ApiKeysAllOrNothing ==
    pc # "start" =>
        IF RequestedNames \subseteq env
        THEN /\ DOMAIN api_keys = RequestedNames
             /\ exit_cause # "missing_api_key"
        ELSE /\ pc = "exited"
             /\ exit_status = EX_CONFIG
             /\ exit_cause = "missing_api_key"
             /\ api_keys = NoKeys
             /\ conversation_history = << >>
             /\ ~network_used

\* the process exited on a missing key although another key was set
C9_Witness ==
    /\ exit_cause = "missing_api_key"
    /\ env # {}
    /\ exit_status = EX_CONFIG

\* the tool call breaks the protocol: its type is not "function", its name
\* is not one of the two tools, or its arguments do not parse or lack a
\* field the named tool requires
ProtocolViolation(tool_call) ==
    \/ tool_call.type # "function"
    \/ tool_call.function.name
          \notin {"get_current_weather", "get_weather_forecast"}
    \/ ~JsonLoads(tool_call.function.arguments).ok
    \/ "location" \notin JsonLoads(tool_call.function.arguments).keys
    \/ /\ tool_call.function.name = "get_weather_forecast"
       /\ "days" \notin JsonLoads(tool_call.function.arguments).keys

\* C10: a tool call that breaks the protocol is never answered by a tool
\* message, the for loop never gets past it, and once it is in the history
\* no completion request is issued and no input is read: every step taken at
\* such a call ends the process or is a retry that changes nothing else.
C10_ProtocolViolationHalts ==
    /\ [](\A k \in ToolCallRounds :
            \A i \in DOMAIN conversation_history[k].tool_calls :
                LET tool_call == conversation_history[k].tool_calls[i]
                IN  ProtocolViolation(tool_call) =>
                       /\ \A m \in DOMAIN conversation_history :
                             Get(conversation_history[m], "tool_call_id")
                                # tool_call.id
                       /\ pc \in {"dispatch", "exited"}
                       /\ conversation_history[k] = assistant_message
                       /\ tool_idx <= i)
    /\ [][(InLoop /\ ProtocolViolation(CurrentToolCall)) =>
            /\ conversation_history' = conversation_history
            /\ tool_idx' = tool_idx
            /\ pc' \in {"dispatch", "exited"}
            /\ pc' = "dispatch" => attempt' = attempt + 1]_vars

\* the loop answered a first call and then ended the process on a second
\* call that names a function outside the dispatch table
C10_Witness ==
    /\ exit_cause = "tool_name_unknown"
    /\ tool_idx = 2
    /\ conversation_history[Len(conversation_history)].role = "tool"

\* C11: reading a line that is empty after trimming, or the line "!debug",
\* leaves the history as it was, issues no completion or weather request and
\* leaves the loop at the prompt, where the next line is read.
C11_IgnoredInputChangesNothing ==
    [][ ( /\ pc = "input"
          /\ exit_cause' # "farewell"
          /\ user_input' \in {"", "   ", "!debug"} )
        => /\ conversation_history' = conversation_history
           /\ pc' = "input"
           /\ exit_status' = Running
           /\ completions' = completions
           /\ network_used' = network_used ]_vars

\* a blank line was read after a finished turn
C11_Witness ==
    /\ pc = "input"
    /\ user_input = "   "
    /\ Len(conversation_history) >= 3

\* C12: at the prompt, during a completion request and during the tool
\* loop an interrupt is possible; it ends the process with the farewell and
\* status 0 without appending a message or issuing a request, and nothing
\* happens after it.
C12_InterruptEndsWithFarewell ==
    /\ [](pc \in {"input", "request", "dispatch"} => ENABLED Interrupt)
    /\ [][ /\ exit_cause' = "farewell"
              => /\ pc' = "exited"
                 /\ exit_status' = EX_OK
                 /\ conversation_history' = conversation_history
                 /\ network_used' = network_used
                 /\ completions' = completions
                 /\ gets' = gets
           /\ exit_cause = "farewell" => UNCHANGED vars ]_vars

\* the interrupt came in the tool loop, after the first of two calls
C12_Witness ==
    /\ exit_cause = "farewell"
    /\ exit_status = EX_OK
    /\ HasToolCalls(assistant_message)
    /\ Len(assistant_message.tool_calls) = 2
    /\ tool_idx = 2

\* C13: a weather lookup whose GET fails returns the error object only after
\* more than one and at most weather_stop_after_attempt attempts.
C13_FailedGetIsRetried ==
    [][ ( /\ GetStep
          /\ get_outcome'.type = "ConnectionError"
          /\ func_response' = get_outcome'
          /\ tool_idx' = tool_idx + 1 )
        => /\ attempt > 1
           /\ attempt <= weather_stop_after_attempt ]_vars

\* C14: one call makes at most stop_after_attempt POST attempts, and a
\* further attempt follows only an attempt that failed in transport, never
\* one that received a response.
C14_RetryOnlyAfterTransportFailure ==
    [][ ( /\ pc = "request"
          /\ pc' = "request"
          /\ attempt' > attempt )
        => /\ attempt' <= stop_after_attempt
           /\ request_response'.kind = "transport" ]_vars

UserMessages ==
    {k \in DOMAIN conversation_history :
        conversation_history[k].role = "user"}

\* C15: get_next_completion has run once for each user message and once
\* more for each round of tool calls; the further run starts when every call
\* of the round has its tool message, and is then possible; a reply without
\* tool calls, or with an empty list of them, returns to the prompt, where
\* only a new user message starts a request.
C15_RecursesOncePerRound ==
    /\ [](pc \in {"request", "input"}
            => completions = Cardinality(UserMessages)
                               + Cardinality(ToolCallRounds))
    /\ [](pc = "dispatch"
            => /\ completions + 1 = Cardinality(UserMessages)
                                      + Cardinality(ToolCallRounds)
               /\ ( /\ tool_idx > Len(assistant_message.tool_calls)
                    /\ completions < MaxCompletions ) => ENABLED Recurse)
    /\ [][ /\ (pc = "dispatch" /\ pc' = "request")
              => LET h == conversation_history
                     n == Len(assistant_message.tool_calls)
                 IN  /\ n >= 1
                     /\ Len(h) > n
                     /\ h[Len(h) - n] = assistant_message
                     /\ \A i \in 1..n : h[Len(h) - n + i].role = "tool"
                     /\ completions' = completions + 1
                     /\ conversation_history' = h
           /\ ( /\ pc = "request"
                /\ conversation_history' # conversation_history
                /\ ~HasToolCalls(assistant_message') )
              => /\ pc' = "input"
                 /\ completions' = completions
           /\ (pc = "input" /\ pc' = "request")
              => /\ Len(conversation_history')
                      = Len(conversation_history) + 1
                 /\ conversation_history'[Len(conversation_history')].role
                      = "user" ]_vars

\* the second request of a turn is under way after a round of two calls
C15_Witness ==
    /\ pc = "request"
    /\ completions = 2
    /\ Len(conversation_history) = 5
    /\ HasToolCalls(conversation_history[3])
    /\ Len(conversation_history[3].tool_calls) = 2
    /\ conversation_history[4].role = "tool"
    /\ conversation_history[5].role = "tool"

\* C16: while a completion request is being made the last message of the
\* history is a user or a tool message, and no assistant message follows
\* another one directly.
C16_RequestFollowsUserOrTool ==
    /\ pc = "request"
         => /\ Len(conversation_history) > 0
            /\ conversation_history[Len(conversation_history)].role
                 \in {"user", "tool"}
    /\ \A k \in 1..(Len(conversation_history) - 1) :
          ~ /\ conversation_history[k].role = "assistant"
            /\ conversation_history[k + 1].role = "assistant"

\* a request that follows a tool message is in its second attempt
C16_Witness ==
    /\ pc = "request"
    /\ attempt = 2
    /\ conversation_history[Len(conversation_history)].role = "tool"

====
